---------------------------- MODULE Spec2Model ----------------------------
(***************************************************************************)
(* A model of scanner.py (class V20Scanner): the pattern scan over a daily *)
(* bar series, the V20 and Envelope alert rules, and run_scan, which walks *)
(* every symbol of every group and mails the collected alerts.             *)
(*                                                                         *)
(* Prices are exact decimals counted in thousandths of a rupee ("mills"),  *)
(* so that round(x, 2) is a real conversion: 100004 is Rs.100.004 and      *)
(* rounds to 100000.  Percentages that the code rounds are counted in      *)
(* hundredths of a percent.  A comparison such as gain_percent >= 20 is    *)
(* modelled on the exact quotient; the price sets below were chosen so     *)
(* that the double-precision value the code computes compares the same.    *)
(* Bar indices are 0-based as in the source: bar i of df is df[i + 1].     *)
(* The trading date of bar i is modelled by its index i.                   *)
(***************************************************************************)
EXTENDS Integers, Sequences, FiniteSets, TLC

VARIABLES
    excel,                  \* the workbook read by read_stocks_from_excel
    stocks,                 \* run_scan local: groups in dict order, each with its symbols
    pc,                     \* control position
    gi, si,                 \* run_scan loop positions (group, symbol), 1-based
    v20_alerts,             \* self.v20_alerts
    envelope_alerts,        \* self.envelope_alerts
    total_patterns_found,   \* run_scan local
    log,                    \* stdout: the symbols announced by "Analyzing {symbol}..."
    outbox,                 \* report bodies handed to SMTP, in order
    produced,               \* history variable: alerts appended since the run began
    runs,                   \* history variable: run_scan calls made on this scanner
    df, i, patterns,        \* find_20_percent_patterns locals / check_v20_alerts argument
    current_price,          \* check_v20_alerts argument
    hist220                 \* the 220-day history answered inside check_envelope_strategy

vars == <<excel, stocks, pc, gi, si, v20_alerts, envelope_alerts,
          total_patterns_found, log, outbox, produced, runs, df, i, patterns,
          current_price, hist220>>

-----------------------------------------------------------------------------
(* Bounds of the model *)

MaxBars == 4
MaxPatterns == 2
MaxSyms == 3
MaxRepeatSyms == 1
MaxRuns == 2

(* Constants of the program *)

MinGainPercent == 20
ActivatedPercent == 1
NearPercent == 5
DropPercent == 14
SmaWindow == 200
None == -1

-----------------------------------------------------------------------------
(* Arithmetic *)

\* numpy's rint of the non-negative quotient num / den: nearest, ties to even
RoundHalfEven(num, den) ==
    LET q == num \div den
        r == num % den
    IN  IF 2 * r < den THEN q
        ELSE IF 2 * r > den THEN q + 1
        ELSE IF q % 2 = 0 THEN q ELSE q + 1

\* round(x, 2) of the price x = num / den mills, as mills
Round2(num, den) == 10 * RoundHalfEven(num, 10 * den)

\* round(x, 2) of the percentage x = 100 * num / den, in hundredths of a percent
RoundPercent(num, den) == RoundHalfEven(10000 * num, den)

Max(a, b) == IF a >= b THEN a ELSE b

Abs(x) == IF x < 0 THEN 0 - x ELSE x

-----------------------------------------------------------------------------
(* find_20_percent_patterns *)

IsGreen(bars, j) == bars[j + 1].Close > bars[j + 1].Open

\* the inner while: the index at which the streak of green bars starting at j stops
RECURSIVE GreenEnd(_, _)
GreenEnd(bars, j) ==
    IF j < Len(bars) /\ IsGreen(bars, j) THEN GreenEnd(bars, j + 1) ELSE j

RunHighLast(bars, from, to, high) ==
    IF to > from THEN bars[to].Close ELSE high

\* current_high after the inner while has walked bars from .. to-1
RECURSIVE RunHigh(_, _, _, _)
RunHigh(bars, from, to, high) ==
    IF from < to
    THEN RunHigh(bars, from + 1, to, Max(high, bars[from + 1].Close))
    ELSE high

QualifiesStrict(start_price, current_high) ==
    (current_high - start_price) * 100 > MinGainPercent * start_price

\* gain_percent >= 20, gain_percent = ((current_high - start_price) / start_price) * 100
Qualifies(start_price, current_high) ==
    (current_high - start_price) * 100 >= MinGainPercent * start_price

MakePattern(start_idx, start_price, current_high, consecutive_green) ==
    [start_date   |-> start_idx,
     start_price  |-> Round2(start_price, 1),
     end_price    |-> Round2(current_high, 1),
     gain_percent |-> RoundPercent(current_high - start_price, start_price),
     candles      |-> consecutive_green]

NextIndexRestart(ii, j) == ii + 1

\* i = j if j > i else i + 1
NextIndex(ii, j) == IF j > ii THEN j ELSE ii + 1

\* one pass of the outer while, from bar ii with the patterns found so far
OuterStep(bars, ii, found) ==
    LET start_price == bars[ii + 1].Open
        j == GreenEnd(bars, ii)
        current_high == RunHigh(bars, ii, j, bars[ii + 1].Close)
        consecutive_green == j - ii
    IN  [i |-> NextIndex(ii, j),
         patterns |->
            IF consecutive_green > 0 /\ Qualifies(start_price, current_high)
            THEN Append(found, MakePattern(ii, start_price, current_high, consecutive_green))
            ELSE found]

RECURSIVE ScanFrom(_, _, _)
ScanFrom(bars, ii, found) ==
    IF ii < Len(bars)
    THEN LET s == OuterStep(bars, ii, found) IN ScanFrom(bars, s.i, s.patterns)
    ELSE found

\* the whole function, given the provider's answer for the 365-day history
FindPatterns(answer) ==
    IF answer.status = "raise" THEN <<>>
    ELSE IF answer.bars = <<>> THEN <<>>
    ELSE ScanFrom(answer.bars, 0, <<>>)

-----------------------------------------------------------------------------
(* get_current_price_and_sma *)

\* the sum of closes[from .. to], by halves
RECURSIVE TailSum(_, _, _)
TailSum(closes, from, to) ==
    IF from > to THEN 0
    ELSE IF from = to THEN closes[from]
    ELSE LET mid == (from + to) \div 2
         IN  TailSum(closes, from, mid) + TailSum(closes, mid + 1, to)

HasWindowAlways(closes) == TRUE

\* len(df) >= 200
HasWindow(closes) == Len(closes) >= SmaWindow

\* returns <<current_price, sma_200>>, each rounded to two decimals or None
GetCurrentPriceAndSma(answer) ==
    IF answer.status = "raise" THEN <<None, None>>
    ELSE IF answer.closes = <<>> THEN <<None, None>>
    ELSE LET closes == answer.closes
             w == IF Len(closes) < SmaWindow THEN Len(closes) ELSE SmaWindow
             total == TailSum(closes, Len(closes) - w + 1, Len(closes))
             has_sma == HasWindow(closes) /\ total # 0
         IN  <<Round2(closes[Len(closes)], 1),
               IF has_sma THEN Round2(total, w) ELSE None>>

-----------------------------------------------------------------------------
(* check_envelope_strategy *)

BuySignalStrict(price, sma_200) == (sma_200 - price) * 100 > DropPercent * sma_200

\* drop_from_sma >= 14, drop_from_sma = ((sma_200 - current_price) / sma_200) * 100
BuySignal(price, sma_200) == (sma_200 - price) * 100 >= DropPercent * sma_200

EnvelopeAlert(symbol, group, price, sma_200) ==
    [kind          |-> "ENVELOPE BUY",
     symbol        |-> symbol,
     group         |-> group,
     current_price |-> price,
     sma_200       |-> sma_200,
     drop          |-> RoundPercent(sma_200 - price, sma_200),
     sell_target   |-> Round2(price * 13, 10)]

\* self.envelope_alerts after the call; every exception is caught inside
CheckEnvelopeStrategy(symbol, group, answer, alerts) ==
    LET r == GetCurrentPriceAndSma(answer)
        price == r[1]
        sma_200 == r[2]
    IN  IF price = None \/ sma_200 = None THEN alerts
        ELSE IF BuySignal(price, sma_200)
             THEN Append(alerts, EnvelopeAlert(symbol, group, price, sma_200))
             ELSE alerts

-----------------------------------------------------------------------------
(* check_v20_alerts *)

\* difference_percent <= 1
IsActivated(start_price, price) ==
    Abs(price - start_price) * 100 <= ActivatedPercent * start_price

IsNearEitherSide(start_price, price) ==
    Abs(price - start_price) * 100 <= NearPercent * start_price

\* difference_percent <= 5 and current_price < start_price
IsNear(start_price, price) ==
    /\ Abs(price - start_price) * 100 <= NearPercent * start_price
    /\ price < start_price

V20Alert(kind, symbol, group, pattern, price) ==
    [kind          |-> kind,
     symbol        |-> symbol,
     group         |-> group,
     current_price |-> price,
     start_price   |-> pattern.start_price,
     start_date    |-> pattern.start_date,
     difference    |-> IF kind = "NEAR V20"
                       THEN RoundPercent(Abs(price - pattern.start_price),
                                         pattern.start_price)
                       ELSE None,
     gain_percent  |-> pattern.gain_percent]

\* the for loop over patterns, from pattern k on
RECURSIVE V20Loop(_, _, _, _, _, _)
V20Loop(symbol, group, pats, price, k, alerts) ==
    IF k > Len(pats) THEN alerts
    ELSE LET start_price == pats[k].start_price
             next == IF IsActivated(start_price, price)
                     THEN Append(alerts, V20Alert("V20 ACTIVATED", symbol, group, pats[k], price))
                     ELSE IF IsNear(start_price, price)
                     THEN Append(alerts, V20Alert("NEAR V20", symbol, group, pats[k], price))
                     ELSE alerts
         IN  V20Loop(symbol, group, pats, price, k + 1, next)

\* self.v20_alerts after the call
CheckV20Alerts(symbol, group, pats, price, alerts) ==
    IF pats = <<>> \/ price = None THEN alerts
    ELSE V20Loop(symbol, group, pats, price, 1, alerts)

-----------------------------------------------------------------------------
(* read_stocks_from_excel *)

SheetOrderH45First == <<"h45", "v40", "v40next">>

\* for sheet_name in ['v40', 'v40next', 'h45']
SheetOrder == <<"v40", "v40next", "h45">>

RECURSIVE ReadSheets(_, _)
ReadSheets(xls, k) ==
    IF k > Len(SheetOrder) THEN <<>>
    ELSE (IF SheetOrder[k] \in DOMAIN xls.sheets
          THEN <<[group |-> SheetOrder[k], symbols |-> xls.sheets[SheetOrder[k]]]>>
          ELSE <<>>) \o ReadSheets(xls, k + 1)

\* the dict returned, as the sequence of its items; {} when reading raised
ReadStocksFromExcel(xls) == IF xls.ok THEN ReadSheets(xls, 1) ELSE <<>>

\* not stocks or all(len(v) == 0 for v in stocks.values())
NoStocks(groups) == \A k \in 1 .. Len(groups) : groups[k].symbols = <<>>

StrategyOf(group) == IF group = "h45" THEN "ENVELOPE" ELSE "V20"

-----------------------------------------------------------------------------
(* send_email *)

\* the body: the counts, then the V20 alerts, then the Envelope alerts
ReportBody(v20, envelope) ==
    [total |-> Len(v20) + Len(envelope), v20_count |-> Len(v20),
     envelope_count |-> Len(envelope), alerts |-> v20 \o envelope]

\* the outbox after send_email; delivered is whether SMTP accepted the message
SendEmail(box, v20, envelope, delivered) ==
    IF Len(v20) + Len(envelope) = 0 THEN box
    ELSE Append(box, [body |-> ReportBody(v20, envelope), delivered |-> delivered])

-----------------------------------------------------------------------------
(* run_scan: the body of the try block for one symbol *)

\* The result of evaluating one symbol under one answer o of the provider:
\* the two alert lists, total_patterns_found, and whether an exception reached
\* the except clause of run_scan.  o.fault places an exception raised in the
\* try body itself: before check_v20_alerts / check_envelope_strategy is
\* called, or after it has returned.
EvalSymbol(symbol, group, o, v20, envelope, total) ==
    IF StrategyOf(group) = "V20"
    THEN LET found == FindPatterns(o.hist365)
         IN  IF found # <<>>
             THEN LET price == GetCurrentPriceAndSma(o.hist220)[1]
                  IN  [v20 |-> IF o.fault = "before_check" THEN v20
                               ELSE CheckV20Alerts(symbol, group, found, price, v20),
                       envelope |-> envelope,
                       total |-> total + Len(found),
                       raised |-> o.fault # "none"]
             ELSE [v20 |-> v20, envelope |-> envelope, total |-> total,
                   raised |-> o.fault # "none"]
    ELSE [v20 |-> v20,
          envelope |-> IF o.fault = "before_check" THEN envelope
                       ELSE CheckEnvelopeStrategy(symbol, group, o.hist220, envelope),
          total |-> total,
          raised |-> o.fault # "none"]

AfterErrorBreak(g, s) == [gi |-> g + 1, si |-> 1]

\* except Exception: ... continue
AfterError(g, s) == [gi |-> g, si |-> s + 1]

Suffix(new, old) == SubSeq(new, Len(old) + 1, Len(new))

-----------------------------------------------------------------------------
(* The environment: what the price-history provider and the workbook hold *)

Bar(o, c) == [Open |-> o, Close |-> c]

Ok365(bars) == [status |-> "ok", bars |-> bars]
Raise365 == [status |-> "raise", bars |-> <<>>]
\* df['Close'] of the 220-day history: n bars, the last at `last`, the others at `base`
Ok220(n, base, last) ==
    [status |-> "ok", closes |-> [k \in 1 .. n |-> IF k = n THEN last ELSE base]]
Raise220 == [status |-> "raise", closes |-> <<>>]
Empty220 == [status |-> "ok", closes |-> <<>>]

Outcome(h365, h220, fault) == [hist365 |-> h365, hist220 |-> h220, fault |-> fault]

Up == Bar(100000, 120000)       \* opens at 100.000, closes 20 % higher
Down == Bar(120000, 100000)

\* one answer per healthy symbol; a failing symbol fails in one of several ways
Market ==
    [s \in {"GOOD", "TWIN", "FAULTY", "DROP14", "SHORT", "HFAULTY"} |->
        CASE s = "GOOD" ->
                {Outcome(Ok365(<<Down, Up>>), Ok220(220, 100000, 100500), "none")}
          [] s = "TWIN" ->
                {Outcome(Ok365(<<Up, Down, Up>>), Ok220(220, 100000, 96000), "none")}
          [] s = "FAULTY" ->
                {Outcome(Raise365, Ok220(220, 100000, 100500), "none"),
                 Outcome(Ok365(<<>>), Ok220(220, 100000, 100500), "none"),
                 Outcome(Ok365(<<Down, Up>>), Raise220, "none"),
                 Outcome(Ok365(<<Down, Up>>), Empty220, "none"),
                 Outcome(Ok365(<<Down, Up>>), Ok220(220, 100000, 100500), "before_check"),
                 Outcome(Ok365(<<Down, Up>>), Ok220(220, 100000, 100500), "after_check")}
          [] s = "DROP14" ->
                {Outcome(Ok365(<<>>), Ok220(200, 100070, 86000), "none")}
          [] s = "SHORT" ->
                {Outcome(Ok365(<<>>), Ok220(199, 100070, 86000), "none")}
          [] OTHER ->
                {Outcome(Ok365(<<>>), Raise220, "none"),
                 Outcome(Ok365(<<>>), Empty220, "none"),
                 Outcome(Ok365(<<>>), Ok220(200, 100070, 86000), "before_check")}]

\* the symbols a sheet of the workbook may list
SheetSymbols(sheet) ==
    CASE sheet = "v40" -> {"GOOD", "TWIN", "FAULTY"}
      [] sheet = "v40next" -> {"GOOD", "FAULTY"}
      [] OTHER -> {"DROP14", "SHORT", "HFAULTY"}

\* the evaluation of a symbol fails under answer o
IsFailure(o, strategy) ==
    \/ o.fault # "none"
    \/ o.hist220.status = "raise"
    \/ o.hist220.closes = <<>>
    \/ strategy = "V20" /\ (o.hist365.status = "raise" \/ o.hist365.bars = <<>>)

Failing(symbol, strategy) == \A o \in Market[symbol] : IsFailure(o, strategy)

\* duplicate-free lists of at most n symbols of S
SymbolLists(S, n) ==
    {l \in UNION {[1 .. k -> S] : k \in 0 .. n} :
        \A a, b \in 1 .. Len(l) : a # b => l[a] # l[b]}

\* workbooks holding any of the three sheets, each with at most n symbols
Workbooks(n) ==
    {[ok |-> TRUE,
      sheets |-> [d \in D |-> CASE d = "v40" -> a [] d = "v40next" -> b [] OTHER -> c]] :
        D \in SUBSET {"v40", "v40next", "h45"},
        a \in SymbolLists(SheetSymbols("v40"), n),
        b \in SymbolLists(SheetSymbols("v40next"), n),
        c \in SymbolLists(SheetSymbols("h45"), n)}
    \cup {[ok |-> FALSE, sheets |-> <<>>]}

-----------------------------------------------------------------------------
(* The scanner: construction, run_scan *)

\* the fields set by __init__, and the locals of a run_scan not yet called
Constructed ==
    /\ stocks = <<>> /\ gi = 1 /\ si = 1
    /\ v20_alerts = <<>> /\ envelope_alerts = <<>>
    /\ total_patterns_found = 0
    /\ log = <<>> /\ outbox = <<>> /\ produced = <<>> /\ runs = 0

\* no call of a scanner method is being followed on its own
NoCall ==
    /\ df = <<>> /\ i = 0 /\ patterns = <<>> /\ current_price = None
    /\ hist220 = Raise220

\* scanner = V20Scanner(...), about to call run_scan
Init ==
    /\ Constructed /\ NoCall
    /\ pc = "main"
    /\ excel \in Workbooks(MaxSyms)

\* run_scan up to the loop over the groups
BeginScan ==
    LET read == ReadStocksFromExcel(excel)
    IN  /\ stocks' = read
        /\ pc' = IF read = <<>> \/ NoStocks(read) THEN "done" ELSE "scan"
        /\ gi' = 1 /\ si' = 1
        /\ total_patterns_found' = 0
        /\ log' = <<>> /\ produced' = <<>>
        /\ runs' = runs + 1
        /\ UNCHANGED <<excel, v20_alerts, envelope_alerts, outbox,
                       df, i, patterns, current_price, hist220>>

RunScan == pc = "main" /\ BeginScan

\* a further run_scan on the same scanner
RunScanAgain == pc = "done" /\ runs < MaxRuns /\ BeginScan

AtSymbol == pc = "scan" /\ gi <= Len(stocks) /\ si <= Len(stocks[gi].symbols)

\* one pass of "for symbol in symbols": the try block and the except clause
AnalyzeSymbol ==
    /\ LET symbol == stocks[gi].symbols[si]
           group == stocks[gi].group
       IN  \E o \in Market[symbol] :
           \E r \in {EvalSymbol(symbol, group, o, v20_alerts, envelope_alerts,
                                total_patterns_found)} :
              LET next == IF r.raised THEN AfterError(gi, si)
                          ELSE [gi |-> gi, si |-> si + 1]
              IN  /\ v20_alerts' = r.v20
                  /\ envelope_alerts' = r.envelope
                  /\ total_patterns_found' = r.total
                  /\ gi' = next.gi /\ si' = next.si
                  /\ log' = Append(log, symbol)
                  /\ produced' = produced \o Suffix(r.v20, v20_alerts)
                                          \o Suffix(r.envelope, envelope_alerts)
    /\ UNCHANGED <<excel, stocks, pc, outbox, runs, df, i, patterns,
                   current_price, hist220>>

\* a symbol of v40 or v40next
AnalyzeV20 ==
    /\ AtSymbol
    /\ StrategyOf(stocks[gi].group) = "V20"
    /\ AnalyzeSymbol

\* a symbol of h45
AnalyzeEnvelope ==
    /\ AtSymbol
    /\ StrategyOf(stocks[gi].group) = "ENVELOPE"
    /\ AnalyzeSymbol

\* the symbols of a group are exhausted: the next item of stocks.items()
NextGroup ==
    /\ pc = "scan" /\ gi <= Len(stocks) /\ si > Len(stocks[gi].symbols)
    /\ gi' = gi + 1 /\ si' = 1
    /\ UNCHANGED <<excel, stocks, pc, v20_alerts, envelope_alerts,
                   total_patterns_found, log, outbox, produced, runs, df, i,
                   patterns, current_price, hist220>>

\* the scan summary, and send_email when there is an alert
ScanSummary ==
    /\ pc = "scan" /\ gi > Len(stocks)
    /\ \E delivered \in BOOLEAN :
          outbox' = IF v20_alerts # <<>> \/ envelope_alerts # <<>>
                    THEN SendEmail(outbox, v20_alerts, envelope_alerts, delivered)
                    ELSE outbox
    /\ pc' = "done"
    /\ UNCHANGED <<excel, stocks, gi, si, v20_alerts, envelope_alerts,
                   total_patterns_found, log, produced, runs, df, i, patterns,
                   current_price, hist220>>

Next == RunScan \/ AnalyzeV20 \/ AnalyzeEnvelope \/ NextGroup \/ ScanSummary

Spec == Init /\ [][Next]_vars

\* the same scanner asked to scan more than once
InitRepeat ==
    /\ Constructed /\ NoCall
    /\ pc = "main"
    /\ excel \in Workbooks(MaxRepeatSyms)

NextRepeat == Next \/ RunScanAgain

SpecRepeat == InitRepeat /\ [][NextRepeat]_vars

-----------------------------------------------------------------------------
(* find_20_percent_patterns followed on its own, one pass of the outer     *)
(* while per step                                                          *)

BarKinds ==
    {Bar(100000, 120000),       \* green, exactly 20 %
     Bar(100000, 119990),       \* green, 19.99 %
     Bar(105000, 110000),       \* green, small, opening below the close before it
     Bar(110000, 126000),       \* green, closing 20 % above 105.000
     Bar(100004, 120006),       \* green, prices that round(x, 2) changes
     Bar(120000, 100000),       \* red
     Bar(110000, 110000)}       \* close = open

Series(n) == UNION {[1 .. k -> BarKinds] : k \in 0 .. n}

NoWorkbook == [ok |-> FALSE, sheets |-> <<>>]

InitScan ==
    /\ Constructed
    /\ excel = NoWorkbook
    /\ pc = "find"
    /\ df \in Series(MaxBars)
    /\ i = 0 /\ patterns = <<>>
    /\ current_price = None /\ hist220 = Raise220

\* while i < len(df): one pass
FindStep ==
    /\ pc = "find" /\ i < Len(df)
    /\ \E s \in {OuterStep(df, i, patterns)} : i' = s.i /\ patterns' = s.patterns
    /\ UNCHANGED <<excel, stocks, pc, gi, si, v20_alerts, envelope_alerts,
                   total_patterns_found, log, outbox, produced, runs, df,
                   current_price, hist220>>

\* return patterns (at once when df is empty)
FindReturn ==
    /\ pc = "find" /\ ~(i < Len(df))
    /\ pc' = "found"
    /\ UNCHANGED <<excel, stocks, gi, si, v20_alerts, envelope_alerts,
                   total_patterns_found, log, outbox, produced, runs, df, i,
                   patterns, current_price, hist220>>

NextScan == FindStep \/ FindReturn

SpecScan == InitScan /\ [][NextScan]_vars

-----------------------------------------------------------------------------
(* check_v20_alerts followed on its own, on a fresh scanner *)

Anchors == {100000, 50000}

Prices == {103000, 103010, 101000, 101010, 100000, 99000, 98990, 97000,
           95000, 94990, 105000, 50500, 50510, 47500, 47490, None}

\* lists of patterns in chronological order, one per anchor chosen
PatternLists(n) ==
    {[k \in 1 .. Len(a) |-> MakePattern(2 * (k - 1), a[k], a[k] + (a[k] \div 4), 1)] :
        a \in UNION {[1 .. m -> Anchors] : m \in 0 .. n}}

InitV20 ==
    /\ Constructed
    /\ excel = NoWorkbook
    /\ pc = "check_v20"
    /\ df = <<>> /\ i = 0
    /\ patterns \in PatternLists(MaxPatterns)
    /\ current_price \in Prices
    /\ hist220 = Raise220

CallCheckV20Alerts ==
    /\ pc = "check_v20"
    /\ v20_alerts' = CheckV20Alerts("SYM", "v40", patterns, current_price, v20_alerts)
    /\ pc' = "checked_v20"
    /\ UNCHANGED <<excel, stocks, gi, si, envelope_alerts, total_patterns_found,
                   log, outbox, produced, runs, df, i, patterns, current_price,
                   hist220>>

NextV20 == CallCheckV20Alerts

SpecV20 == InitV20 /\ [][NextV20]_vars

-----------------------------------------------------------------------------
(* check_envelope_strategy followed on its own, on a fresh scanner *)

Histories ==
    {Raise220} \cup
    {Ok220(n, base, last) :
        n \in {0, 1, 10, 199, 200, 220},
        base \in {100070, 100000, 50030},
        last \in {86000, 86010, 85000, 100070, 43000, 43010, 120000}}

InitEnvelope ==
    /\ Constructed
    /\ excel = NoWorkbook
    /\ pc = "check_envelope"
    /\ df = <<>> /\ i = 0 /\ patterns = <<>> /\ current_price = None
    /\ hist220 \in Histories

CallCheckEnvelopeStrategy ==
    /\ pc = "check_envelope"
    /\ envelope_alerts' = CheckEnvelopeStrategy("SYM", "h45", hist220, envelope_alerts)
    /\ pc' = "checked_envelope"
    /\ UNCHANGED <<excel, stocks, gi, si, v20_alerts, total_patterns_found,
                   log, outbox, produced, runs, df, i, patterns, current_price,
                   hist220>>

NextEnvelope == CallCheckEnvelopeStrategy

SpecEnvelope == InitEnvelope /\ [][NextEnvelope]_vars

-----------------------------------------------------------------------------
(* Properties of the pattern scan (SpecScan) *)

\* the maximal runs of green bars of a series, as <<first bar, bar after the last>>
GreenRuns(bars) ==
    {r \in (0 .. Len(bars)) \X (0 .. Len(bars)) :
        /\ r[1] < r[2]
        /\ \A k \in r[1] .. r[2] - 1 : bars[k + 1].Close > bars[k + 1].Open
        /\ r[1] = 0 \/ ~(bars[r[1]].Close > bars[r[1]].Open)
        /\ r[2] = Len(bars) \/ ~(bars[r[2] + 1].Close > bars[r[2] + 1].Open)}

\* the highest close over the bars of a run
PeakOf(bars, r) ==
    CHOOSE m \in {bars[k + 1].Close : k \in r[1] .. r[2] - 1} :
        \A k \in r[1] .. r[2] - 1 : m >= bars[k + 1].Close

AnchorOf(bars, r) == bars[r[1] + 1].Open

Emitted(a) == \E k \in 1 .. Len(patterns) : patterns[k].start_date = a

\* C3: the patterns found occupy pairwise disjoint bar ranges, in increasing
\* order, all before the bar the scan stands at; and the scan never stands
\* inside a run of green bars: after a run, emitted or not, it resumes at the
\* bar right after the run's last bar.
C3_NoOverlap ==
    /\ \A a, b \in 1 .. Len(patterns) :
          a < b => patterns[a].start_date + patterns[a].candles <= patterns[b].start_date
    /\ \A k \in 1 .. Len(patterns) :
          patterns[k].candles >= 1 /\ patterns[k].start_date + patterns[k].candles <= i
    /\ i <= Len(df)
    /\ i = 0 \/ i = Len(df) \/ ~IsGreen(df, i - 1) \/ ~IsGreen(df, i)

C3_Witness ==
    /\ pc = "found" /\ Len(patterns) = 2
    /\ patterns[1].start_date = 0 /\ patterns[1].candles = 2
    /\ patterns[2].start_date = 3

\* C4: once the scan has returned, a maximal run of green bars is among the
\* patterns exactly when its peak is at least 20 % above its anchor; 20 %
\* itself qualifies.
C4_Threshold ==
    pc = "found" =>
        \A r \in GreenRuns(df) :
            Emitted(r[1]) <=>
                (PeakOf(df, r) - AnchorOf(df, r)) * 100 >= 20 * AnchorOf(df, r)

C4_Witness ==
    /\ pc = "found"
    /\ df = <<Bar(100000, 120000), Bar(120000, 100000), Bar(100000, 119990)>>
    /\ Len(patterns) = 1
    /\ patterns[1].start_date = 0 /\ patterns[1].gain_percent = 2000

\* the pattern the scan is to report for a qualifying run
RunPattern(bars, r) ==
    [start_date   |-> r[1],
     start_price  |-> Round2(AnchorOf(bars, r), 1),
     end_price    |-> Round2(PeakOf(bars, r), 1),
     gain_percent |-> RoundPercent(PeakOf(bars, r) - AnchorOf(bars, r), AnchorOf(bars, r)),
     candles      |-> r[2] - r[1]]

\* C9: once the scan has returned, its patterns are exactly those of the
\* maximal runs of green bars that reach the threshold, one each, in the order
\* of the series: anchored at the open of the run's first bar, peaking at the
\* highest close of the run, a run that ends with the series included.
C9_RunConstruction ==
    pc = "found" =>
        /\ {patterns[k] : k \in 1 .. Len(patterns)} =
              {RunPattern(df, r) : r \in {q \in GreenRuns(df) :
                  (PeakOf(df, q) - AnchorOf(df, q)) * 100 >= 20 * AnchorOf(df, q)}}
        /\ \A a, b \in 1 .. Len(patterns) :
              a < b => patterns[a].start_date < patterns[b].start_date

C9_Witness ==
    /\ pc = "found"
    /\ \E k \in 1 .. Len(patterns) :
          /\ patterns[k].candles = 2
          /\ patterns[k].start_date + patterns[k].candles = Len(df)
          /\ patterns[k].end_price > Round2(df[Len(df)].Close, 1)

-----------------------------------------------------------------------------
(* Properties of check_v20_alerts (SpecV20) *)

\* the alerts appended for the k-th pattern passed in
AlertsFor(k) ==
    Cardinality({a \in 1 .. Len(v20_alerts) :
                    v20_alerts[a].start_date = patterns[k].start_date})

\* C2: one call of check_v20_alerts appends at most one alert
C2_AtMostOne == pc = "checked_v20" => Len(v20_alerts) <= 1

-----------------------------------------------------------------------------
(* Properties of check_envelope_strategy (SpecEnvelope) *)

\* C6: with a defined average, exactly one alert is appended when the price is
\* 14 % or more below the average, and none otherwise: average 100.00 with
\* price 86.00 fires, with 86.01 it does not.
C6_Boundary ==
    pc = "checked_envelope" =>
        \A q \in {GetCurrentPriceAndSma(hist220)} :
            /\ Len(envelope_alerts) <= 1
            /\ q[2] # None =>
                  (Len(envelope_alerts) = 1 <=> (q[2] - q[1]) * 100 >= 14 * q[2])
            /\ q = <<86000, 100000>> => Len(envelope_alerts) = 1
            /\ q = <<86010, 100000>> => Len(envelope_alerts) = 0

C6_Witness ==
    /\ pc = "checked_envelope"
    /\ GetCurrentPriceAndSma(hist220) = <<86000, 100000>>
    /\ Len(envelope_alerts) = 1
    /\ envelope_alerts[1].drop = 1400

-----------------------------------------------------------------------------
(* Properties of run_scan (Spec, SpecRepeat) *)

RECURSIVE AllSymbols(_, _)
AllSymbols(groups, g) ==
    IF g > Len(groups) THEN <<>> ELSE groups[g].symbols \o AllSymbols(groups, g + 1)

Healthy(symbol, group) == ~Failing(symbol, StrategyOf(group))

HealthyAlert(a) == Healthy(a.symbol, a.group)

\* the alert lists of a scan of the groups with their failing symbols left out
RECURSIVE ScanWithout(_, _, _, _)
ScanWithout(groups, g, s, acc) ==
    IF g > Len(groups) THEN acc
    ELSE IF s > Len(groups[g].symbols) THEN ScanWithout(groups, g + 1, 1, acc)
    ELSE IF ~Healthy(groups[g].symbols[s], groups[g].group)
         THEN ScanWithout(groups, g, s + 1, acc)
         ELSE ScanWithout(groups, g, s + 1,
                  EvalSymbol(groups[g].symbols[s], groups[g].group,
                             CHOOSE o \in Market[groups[g].symbols[s]] : TRUE,
                             acc.v20, acc.envelope, acc.total))

\* C1: a scan that has begun goes on past every failing symbol: when it is
\* over, every symbol of every group has been analysed, in order, and the
\* alerts of the symbols that did not fail are those of a scan of the same
\* lists without the failing symbols.
C1_Isolation ==
    (pc = "done" /\ ~NoStocks(stocks)) =>
        \A ref \in {ScanWithout(stocks, 1, 1,
                      [v20 |-> <<>>, envelope |-> <<>>, total |-> 0, raised |-> FALSE])} :
           /\ log = AllSymbols(stocks, 1)
           /\ SelectSeq(v20_alerts, HealthyAlert) = ref.v20
           /\ SelectSeq(envelope_alerts, HealthyAlert) = ref.envelope

C1_Witness ==
    /\ pc = "done"
    /\ Len(stocks) >= 1 /\ stocks[1].symbols = <<"GOOD", "FAULTY", "TWIN">>
    /\ Len(SelectSeq(v20_alerts, HealthyAlert)) = 3
    /\ Len(v20_alerts) = 3
    /\ log = AllSymbols(stocks, 1)

\* the symbol the scan stands at has a 220-day history shorter than the window
AtShortHistory ==
    /\ AtSymbol
    /\ StrategyOf(stocks[gi].group) = "ENVELOPE"
    /\ \A o \in Market[stocks[gi].symbols[si]] :
          /\ o.fault = "none" /\ o.hist220.status = "ok"
          /\ Len(o.hist220.closes) < 200

\* C7: for a history of fewer than 200 bars the average is None, and analysing
\* the symbol appends no alert to either list and goes on to the next symbol.
C7_InsufficientData ==
    [][AtShortHistory =>
          /\ \A o \in Market[stocks[gi].symbols[si]] :
                GetCurrentPriceAndSma(o.hist220)[2] = None
          /\ envelope_alerts' = envelope_alerts
          /\ v20_alerts' = v20_alerts
          /\ pc' = "scan" /\ gi' = gi /\ si' = si + 1]_vars

C7_Witness ==
    /\ AtSymbol /\ si = 2
    /\ stocks[gi].group = "h45"
    /\ stocks[gi].symbols[1] = "SHORT"
    /\ log # <<>> /\ log[Len(log)] = "SHORT"
    /\ envelope_alerts = <<>>

GroupIndex(group) == CHOOSE g \in 1 .. Len(stocks) : stocks[g].group = group

SymbolIndex(group, symbol) ==
    CHOOSE s \in 1 .. Len(stocks[GroupIndex(group)].symbols) :
        stocks[GroupIndex(group)].symbols[s] = symbol

\* alert a stands no later than alert b in group-then-symbol order
InOrder(a, b) ==
    \/ GroupIndex(a.group) < GroupIndex(b.group)
    \/ /\ a.group = b.group
       /\ SymbolIndex(a.group, a.symbol) <= SymbolIndex(b.group, b.symbol)

\* C8: in every report the alerts stand in group-then-symbol order
C8_ReportOrder ==
    \A m \in 1 .. Len(outbox) :
        \A a, b \in 1 .. Len(outbox[m].body.alerts) :
            a < b => InOrder(outbox[m].body.alerts[a], outbox[m].body.alerts[b])

C8_Witness ==
    /\ pc = "done" /\ Len(outbox) = 1
    /\ \E a, b, c \in 1 .. Len(outbox[1].body.alerts) :
          /\ a < b /\ b < c
          /\ outbox[1].body.alerts[a].group = "v40"
          /\ outbox[1].body.alerts[b].group = "v40next"
          /\ outbox[1].body.alerts[c].group = "h45"

IsV20Alert(a) == a.kind # "ENVELOPE BUY"

IsEnvelopeAlert(a) == a.kind = "ENVELOPE BUY"

\* C10: when a run is over, the alerts it counts and reports are the alerts
\* appended during that run
C10_OneRunReport ==
    (pc = "done" /\ ~NoStocks(stocks)) =>
        /\ v20_alerts = SelectSeq(produced, IsV20Alert)
        /\ envelope_alerts = SelectSeq(produced, IsEnvelopeAlert)
        /\ produced # <<>> =>
              /\ outbox # <<>>
              /\ outbox[Len(outbox)].body.total = Len(produced)
        /\ produced = <<>> => Len(outbox) < runs

=============================================================================
